---------------------------- MODULE Spec2Model ----------------------------
(***************************************************************************)
(* Model of the Code listing object (manim/mobject/text/code_mobject.py)   *)
(* and of the style-range emitter lex2csw (testing_code/code.py).          *)
(*                                                                         *)
(* A text is a sequence of one-character strings.  A file-system path is   *)
(* a sequence of path components, the empty sequence being the empty       *)
(* string.  An optional argument is a record [isNone, v].                  *)
(*                                                                         *)
(* One behaviour is one construction Code(code, code_file_path, ...)       *)
(* followed, when the construction completes, by one call                  *)
(* lex2csw(code_string, lexer, style_name).  The lexer and the style table *)
(* are external (pygments): the lexer is any ordered, gapless sequence of  *)
(* non-empty (category, fragment) pairs whose fragments concatenate to the *)
(* text handed to it; the style table is a fixed table over three          *)
(* categories of the "default" style (Text sets nothing, Keyword a color   *)
(* and bold, Emph italic only).                                            *)
(***************************************************************************)
EXTENDS Integers, Sequences, FiniteSets, TLC

\* ------------------------------------------------------------- bounds --
\* longest text (inline code or file content) the model enumerates
MaxLen == 3

\* ------------------------------------------------------- value domains --
Alphabet == {"a", "\t", "\r"}

Texts == UNION {[1..k -> Alphabet] : k \in 0..MaxLen}

None == [isNone |-> TRUE, v |-> <<>>]

Some(x) == [isNone |-> FALSE, v |-> x]

\* paths offered as code_file_path: the empty string, a path that does not
\* exist, a directory, and a regular file
Paths == {<<>>, <<"missing.py">>, <<"pkg">>, <<"listing.py">>}

\* encodings a caller names; Code.__init__ itself names "utf-8"
Encodings == {"latin-1"}

TabWidths == {4}

\* the file system the constructor runs against
FileKind(path) ==
    IF path = <<"listing.py">> THEN "file"
    ELSE IF path = <<"pkg">> \/ path = <<>> THEN "dir"
    ELSE "missing"

\* ------------------------------------------------- pygments collaborators --
Categories == {"Text", "Keyword", "Emph"}

\* dict(get_style_by_name("default")): color is a hex string or empty
styles ==
    [c \in Categories |->
        CASE c = "Text"    -> [color |-> "",       italic |-> FALSE, bold |-> FALSE]
          [] c = "Keyword" -> [color |-> "008000", italic |-> FALSE, bold |-> TRUE]
          [] c = "Emph"    -> [color |-> "",       italic |-> TRUE,  bold |-> FALSE]]

\* lex(code, lexer): every gapless sequence of non-empty fragments of the text
RECURSIVE lex(_)
lex(text) ==
    IF text = <<>> THEN {<<>>}
    ELSE UNION {
           { <<[token |-> c, value |-> SubSeq(text, 1, n)]>> \o rest :
                 c \in Categories, rest \in lex(SubSeq(text, n + 1, Len(text))) }
           : n \in 1..Len(text) }

ITALIC == "ITALIC"

BOLD == "BOLD"

\* ------------------------------------------------------ pure functions --
\* mutant of Truthy: tests `is not None` instead of truthiness
TruthyNotNone(x) == ~x.isNone

\* Python truthiness of an optional str / path argument
Truthy(x) == ~x.isNone /\ Len(x.v) > 0

Digits == <<"0", "1", "2", "3", "4", "5", "6", "7", "8", "9">>

\* str(n) for n >= 0, as a sequence of characters
RECURSIVE Str(_)
Str(n) == IF n < 10 THEN <<Digits[n + 1]>>
          ELSE Str(n \div 10) \o <<Digits[(n % 10) + 1]>>

\* mutant of FormatSlice: the end of the range is the length, f"[{idx}:{length}]"
FormatSliceEndIsLength(idx, length) ==
    <<"[">> \o Str(idx) \o <<":">> \o Str(length) \o <<"]">>

\* f"[{idx}:{idx + length}]"
FormatSlice(idx, length) ==
    <<"[">> \o Str(idx) \o <<":">> \o Str(idx + length) \o <<"]">>

\* mutant of AdvanceIdx: idx += 1
AdvanceIdxByOne(idx, length) == idx + 1

\* idx += length
AdvanceIdx(idx, length) == idx + length

\* d.update({k: v})
DictUpdate(d, k, v) == [x \in (DOMAIN d) \cup {k} |-> IF x = k THEN v ELSE d[x]]

EmptyDict == [x \in {} |-> 0]

\* if style["color"]: t2c.update({slice: "#" + style["color"]})
EmitColor(d, style, slice) ==
    IF style.color # "" THEN DictUpdate(d, slice, <<"#", style.color>>) ELSE d

\* mutant of EmitItalic: tests style["bold"]
EmitItalicOnBold(d, style, slice) ==
    IF style.bold THEN DictUpdate(d, slice, ITALIC) ELSE d

\* if style["italic"]: t2s.update({slice: ITALIC})
EmitItalic(d, style, slice) ==
    IF style.italic THEN DictUpdate(d, slice, ITALIC) ELSE d

\* if style["bold"]: t2w.update({slice: BOLD})
EmitBold(d, style, slice) ==
    IF style.bold THEN DictUpdate(d, slice, BOLD) ELSE d

\* Path(file_path).resolve(strict=True): the absolute path
Resolve(path) == <<"/", "cwd">> \o path

\* mutant of ReadCodeFile: the is_file() check is left out
ReadCodeFileNoIsFile(file_path, encoding, content) ==
    IF file_path.isNone
    THEN [error |-> "ValueError", value |-> <<>>, resolved |-> <<>>, reads |-> <<>>]
    ELSE IF FileKind(file_path.v) = "missing"
    THEN [error |-> "FileNotFoundError", value |-> <<>>,
          resolved |-> <<file_path.v>>, reads |-> <<>>]
    ELSE [error |-> "", value |-> content,
          resolved |-> <<file_path.v>>,
          reads |-> <<[path |-> Resolve(file_path.v), encoding |-> encoding]>>]

\* Code._read_code_file(file_path, encoding=encoding), given what the file
\* holds: the error raised or the text returned, the paths resolved and the
\* reads issued
ReadCodeFile(file_path, encoding, content) ==
    IF file_path.isNone
    THEN [error |-> "ValueError", value |-> <<>>, resolved |-> <<>>, reads |-> <<>>]
    ELSE IF FileKind(file_path.v) = "missing"
    THEN [error |-> "FileNotFoundError", value |-> <<>>,
          resolved |-> <<file_path.v>>, reads |-> <<>>]
    ELSE IF FileKind(file_path.v) # "file"
    THEN [error |-> "IsADirectoryError", value |-> <<>>,
          resolved |-> <<file_path.v>>, reads |-> <<>>]
    ELSE [error |-> "", value |-> content,
          resolved |-> <<file_path.v>>,
          reads |-> <<[path |-> Resolve(file_path.v), encoding |-> encoding]>>]

\* the encoding Code.__init__ hands to _read_code_file
ReadEncoding(file_encoding) == Some("utf-8")

\* mutant of BothSet: the check is left out
BothSetUnchecked(code, code_file_path) == FALSE

\* if code and code_file_path:
BothSet(code, code_file_path) == Truthy(code) /\ Truthy(code_file_path)

\* ---------------------------------------------------------------- state --
VARIABLES
    code, code_file_path, file_encoding, tab_width,   \* constructor arguments
    cpc,            \* "called", "constructed", "raised"
    self_tab_width, \* self.tab_width
    code_string,    \* self.code_string, None while unset
    error,          \* [type, msg] of the exception raised, type "" if none
    resolved,       \* paths handed to Path.resolve
    reads,          \* read_text calls issued: [path, encoding]
    lpc,            \* lex2csw: "idle", "loop", "returned"
    lexed_code,     \* the token stream
    pos,            \* tokens consumed by the for loop
    idx,            \* running offset
    slices,         \* the slice computed in each iteration, in order
    t2c, t2s, t2w   \* the three mappings

args == <<code, code_file_path, file_encoding, tab_width>>

ctor == <<cpc, self_tab_width, code_string, error, resolved, reads>>

emitter == <<lpc, lexed_code, pos, idx, slices, t2c, t2s, t2w>>

vars == <<args, ctor, emitter>>

NoError == [type |-> "", msg |-> ""]

Init ==
    /\ code \in {None} \cup {Some(t) : t \in Texts}
    /\ code_file_path \in {None} \cup {Some(p) : p \in Paths}
    /\ file_encoding \in {None} \cup {Some(e) : e \in Encodings}
    /\ tab_width \in TabWidths
    /\ cpc = "called"
    /\ self_tab_width = 0
    /\ code_string = None
    /\ error = NoError
    /\ resolved = <<>>
    /\ reads = <<>>
    /\ lpc = "idle"
    /\ lexed_code = <<>>
    /\ pos = 0
    /\ idx = 0
    /\ slices = <<>>
    /\ t2c = EmptyDict
    /\ t2s = EmptyDict
    /\ t2w = EmptyDict

\* ----------------------------------------------------- Code.__init__ --
\* lines 187-211: both arguments set
CodeInitBoth ==
    /\ cpc = "called"
    /\ BothSet(code, code_file_path)
    /\ self_tab_width' = tab_width
    /\ error' = [type |-> "ValueError",
                 msg |-> "Both 'code' and 'code_file_path' arguments cannot be set"]
    /\ cpc' = "raised"
    /\ UNCHANGED <<args, code_string, resolved, reads, emitter>>

\* lines 187-214: the inline string
CodeInitInline ==
    /\ cpc = "called"
    /\ ~BothSet(code, code_file_path)
    /\ Truthy(code)
    /\ self_tab_width' = tab_width
    /\ code_string' = Some(code.v)
    /\ cpc' = "constructed"
    /\ UNCHANGED <<args, error, resolved, reads, emitter>>

\* lines 187-216 and 290-305: the file
CodeInitFromFile ==
    /\ cpc = "called"
    /\ ~BothSet(code, code_file_path)
    /\ ~Truthy(code)
    /\ Truthy(code_file_path)
    /\ self_tab_width' = tab_width
    /\ \E content \in Texts :
         LET r == ReadCodeFile(code_file_path, ReadEncoding(file_encoding), content)
         IN  /\ resolved' = resolved \o r.resolved
             /\ reads' = reads \o r.reads
             /\ IF r.error = ""
                THEN /\ code_string' = Some(r.value)
                     /\ error' = error
                     /\ cpc' = "constructed"
                ELSE /\ code_string' = code_string
                     /\ error' = [type |-> r.error, msg |-> "file"]
                     /\ cpc' = "raised"
    /\ UNCHANGED <<args, emitter>>

\* lines 187-218: neither argument set
CodeInitNeither ==
    /\ cpc = "called"
    /\ ~BothSet(code, code_file_path)
    /\ ~Truthy(code)
    /\ ~Truthy(code_file_path)
    /\ self_tab_width' = tab_width
    /\ error' = [type |-> "ValueError",
                 msg |-> "Either 'code' or 'code_file_path' arguments must be set"]
    /\ cpc' = "raised"
    /\ UNCHANGED <<args, code_string, resolved, reads, emitter>>

\* ----------------------------------------------------------- lex2csw --
\* lines 11-19: the call, on the listing's text
Lex2cswCall ==
    /\ cpc = "constructed"
    /\ lpc = "idle"
    /\ lexed_code' \in lex(code_string.v)
    /\ t2c' = EmptyDict
    /\ t2s' = EmptyDict
    /\ t2w' = EmptyDict
    /\ idx' = 0
    /\ pos' = 0
    /\ slices' = <<>>
    /\ lpc' = "loop"
    /\ UNCHANGED <<args, ctor>>

\* lines 20-35: one iteration of the for loop
Lex2cswIterate ==
    /\ lpc = "loop"
    /\ pos < Len(lexed_code)
    /\ LET token  == lexed_code[pos + 1].token
           value  == lexed_code[pos + 1].value
           length == Len(value)
           slice  == FormatSlice(idx, length)
           style  == styles[token]
       IN  /\ t2c' = EmitColor(t2c, style, slice)
           /\ t2s' = EmitItalic(t2s, style, slice)
           /\ t2w' = EmitBold(t2w, style, slice)
           /\ slices' = Append(slices, slice)
           /\ idx' = AdvanceIdx(idx, length)
    /\ pos' = pos + 1
    /\ UNCHANGED <<args, ctor, lpc, lexed_code>>

\* mutant of Lex2cswReturn: a closing flush emits the pending range [0:idx]
\* whether or not a fragment was seen
Lex2cswReturnFlush ==
    /\ lpc = "loop"
    /\ pos = Len(lexed_code)
    /\ t2c' = DictUpdate(t2c, FormatSlice(0, idx), <<"#", "">>)
    /\ lpc' = "returned"
    /\ UNCHANGED <<args, ctor, lexed_code, pos, idx, slices, t2s, t2w>>

\* line 37: return (t2c, t2s, t2w)
Lex2cswReturn ==
    /\ lpc = "loop"
    /\ pos = Len(lexed_code)
    /\ lpc' = "returned"
    /\ UNCHANGED <<args, ctor, lexed_code, pos, idx, slices, t2c, t2s, t2w>>

Next ==
    \/ CodeInitBoth
    \/ CodeInitInline
    \/ CodeInitFromFile
    \/ CodeInitNeither
    \/ Lex2cswCall
    \/ Lex2cswIterate
    \/ Lex2cswReturn

Spec == Init /\ [][Next]_vars

\* ------------------------------------------------ reading the output --
\* an argument the caller supplied: present and not empty
Supplied(x) == x # None /\ x.v # <<>>

DigitValue(c) == CHOOSE d \in 0..9 : Digits[d + 1] = c

RECURSIVE Number(_)
Number(ds) ==
    IF ds = <<>> THEN 0
    ELSE Number(SubSeq(ds, 1, Len(ds) - 1)) * 10 + DigitValue(ds[Len(ds)])

\* the half-open range <<start, end>> a key "[start:end]" names
ParseSlice(key) ==
    LET colon == CHOOSE i \in 1..Len(key) : key[i] = ":"
    IN  <<Number(SubSeq(key, 2, colon - 1)),
          Number(SubSeq(key, colon + 1, Len(key) - 1))>>

Min(a, b) == IF a < b THEN a ELSE b

\* text[start:end] for 0 <= start
TextSlice(text, range) == SubSeq(text, range[1] + 1, Min(range[2], Len(text)))

RangeBefore(r, q) == r[1] < q[1] \/ (r[1] = q[1] /\ r[2] <= q[2])

\* the slices of text named by a set of ranges, ordered by start offset
RECURSIVE ConcatSlices(_, _)
ConcatSlices(text, ranges) ==
    IF ranges = {} THEN <<>>
    ELSE LET first == CHOOSE r \in ranges : \A q \in ranges : RangeBefore(r, q)
         IN  TextSlice(text, first) \o ConcatSlices(text, ranges \ {first})

\* the ranges that are keys of any of the three mappings
EmittedRanges ==
    {ParseSlice(key) : key \in (DOMAIN t2c) \cup (DOMAIN t2s) \cup (DOMAIN t2w)}

RECURSIVE Flatten(_)
Flatten(tokens) ==
    IF tokens = <<>> THEN <<>>
    ELSE tokens[1].value \o Flatten(Tail(tokens))

Spaces(n) == [i \in 1..n |-> " "]

\* tabs expanded to width spaces, "\r\n" and bare "\r" turned into "\n"
RECURSIVE NormalizeText(_, _)
NormalizeText(text, width) ==
    IF text = <<>> THEN <<>>
    ELSE IF text[1] = "\t" THEN Spaces(width) \o NormalizeText(Tail(text), width)
    ELSE IF text[1] = "\r" /\ Len(text) > 1 /\ text[2] = "\n"
         THEN <<"\n">> \o NormalizeText(Tail(Tail(text)), width)
    ELSE IF text[1] = "\r" THEN <<"\n">> \o NormalizeText(Tail(text), width)
    ELSE <<text[1]>> \o NormalizeText(Tail(text), width)

Category(k) == lexed_code[k].token

\* tokens i..j are a maximal run of one category
MaximalRun(i, j) ==
    /\ 1 <= i /\ i <= j /\ j <= Len(lexed_code)
    /\ \A k \in i..j : Category(k) = Category(i)
    /\ (i = 1 \/ Category(i - 1) # Category(i))
    /\ (j = Len(lexed_code) \/ Category(j + 1) # Category(j))

\* the keys of mapping d that fall inside tokens i..j
KeysOfRun(d, i, j) == {slices[k] : k \in i..j} \cap DOMAIN d

HasAttribute(style) == style.color # "" \/ style.italic \/ style.bold

\* --------------------------------------------------------------- claims --
\* C1: when lex2csw has returned, every maximal run of consecutive fragments
\* of one category contributes at most one key to each of the three mappings
\* (the run is emitted as one range, not one range per fragment).
C1_RunsCollapse ==
    lpc = "returned" =>
        \A i, j \in 1..Len(lexed_code) :
            MaximalRun(i, j) =>
                /\ Cardinality(KeysOfRun(t2c, i, j)) <= 1
                /\ Cardinality(KeysOfRun(t2s, i, j)) <= 1
                /\ Cardinality(KeysOfRun(t2w, i, j)) <= 1

\* C2: the ranges computed by the pass start at 0, each is a non-empty
\* half-open range that starts where the one before it ends (increasing, no
\* overlap, no gap), their ends are the running offset, and when the pass is
\* over the last one ends at len(text).
C2_RangesTileText ==
    LET r == [k \in 1..Len(slices) |-> ParseSlice(slices[k])]
        n == Len(slices)
    IN  /\ n > 0 => r[1][1] = 0
        /\ \A k \in 1..n : r[k][1] < r[k][2]
        /\ \A k \in 1..(n - 1) : r[k + 1][1] = r[k][2]
        /\ \A k, m \in 1..n : k < m => r[k][2] <= r[m][1]
        /\ idx = (IF n = 0 THEN 0 ELSE r[n][2])
        /\ lpc = "returned" => idx = Len(code_string.v)

C2_Witness ==
    /\ lpc = "returned"
    /\ Len(slices) = 2
    /\ ParseSlice(slices[2]) = <<1, 3>>

\* C3: the range of a fragment is a key of the color mapping exactly when the
\* style of the fragment's category sets a color, and every key of the color
\* mapping is such a range; the same, independently, for italic and bold.
C3_KeysOnlyForSetAttributes ==
    /\ \A k \in 1..Len(slices) :
          LET style == styles[Category(k)]
          IN  /\ slices[k] \in DOMAIN t2c <=> style.color # ""
              /\ slices[k] \in DOMAIN t2s <=> style.italic
              /\ slices[k] \in DOMAIN t2w <=> style.bold
    /\ \A key \in (DOMAIN t2c) \cup (DOMAIN t2s) \cup (DOMAIN t2w) :
          \E k \in 1..Len(slices) : slices[k] = key

C3_Witness ==
    /\ lpc = "returned"
    /\ \E k \in 1..Len(lexed_code) : Category(k) = "Emph"
    /\ \E k \in 1..Len(lexed_code) : Category(k) = "Text"
    /\ DOMAIN t2s # {}
    /\ DOMAIN t2c = {}

\* C4: a construction given both an inline string and a file path ends in a
\* ValueError, with no path resolved, no file read, code_string unset, and
\* nothing lexed.
C4_BothRaisesBeforeRead ==
    (Supplied(code) /\ Supplied(code_file_path) /\ cpc # "called") =>
        /\ cpc = "raised"
        /\ error.type = "ValueError"
        /\ resolved = <<>>
        /\ reads = <<>>
        /\ code_string = None
        /\ lpc = "idle"

C4_Witness ==
    /\ cpc = "raised"
    /\ Supplied(code)
    /\ code_file_path = Some(<<"listing.py">>)

\* C5: a construction given neither input (each empty or absent) ends in a
\* ValueError with nothing resolved or read; a construction that completes
\* was given exactly one of the two.
C5_NeitherRaises ==
    /\ (~Supplied(code) /\ ~Supplied(code_file_path) /\ cpc # "called") =>
          /\ cpc = "raised"
          /\ error.type = "ValueError"
          /\ resolved = <<>>
          /\ reads = <<>>
          /\ code_string = None
    /\ cpc = "constructed" => (Supplied(code) <=> ~Supplied(code_file_path))

C5_Witness ==
    /\ cpc = "raised"
    /\ code = Some(<<>>)
    /\ code_file_path = None

\* C6: a file read is always preceded by resolving a path that names a
\* regular file; a construction from a path that is missing or is not a
\* regular file ends in FileNotFoundError / IsADirectoryError with the path
\* resolved, no file read, code_string unset and nothing lexed.
C6_BadPathRaisesBeforeRead ==
    /\ reads # <<>> =>
          /\ resolved = <<code_file_path.v>>
          /\ FileKind(code_file_path.v) = "file"
    /\ (/\ ~Supplied(code)
        /\ Supplied(code_file_path)
        /\ FileKind(code_file_path.v) # "file"
        /\ cpc # "called") =>
          /\ cpc = "raised"
          /\ error.type = (IF FileKind(code_file_path.v) = "missing"
                           THEN "FileNotFoundError" ELSE "IsADirectoryError")
          /\ resolved = <<code_file_path.v>>
          /\ reads = <<>>
          /\ code_string = None
          /\ lpc = "idle"

C6_Witness ==
    /\ cpc = "raised"
    /\ code = None
    /\ code_file_path = Some(<<"pkg">>)
    /\ error.type = "IsADirectoryError"

\* C7: the text that is lexed has every tab expanded to tab_width spaces and
\* its line endings normalized: no fragment holds a tab, and the fragments
\* concatenate to the normalized inline text.
C7_LexedTextIsNormalized ==
    lpc # "idle" =>
        /\ \A k \in 1..Len(lexed_code) :
              \A i \in 1..Len(lexed_code[k].value) : lexed_code[k].value[i] # "\t"
        /\ Supplied(code) =>
              Flatten(lexed_code) = NormalizeText(code.v, self_tab_width)

\* C8: when the text is empty (the token stream has no fragments), lex2csw
\* returns three empty mappings and no error is raised.
C8_EmptyTextEmptyMappings ==
    (lpc = "returned" /\ lexed_code = <<>>) =>
        /\ code_string.v = <<>>
        /\ DOMAIN t2c = {}
        /\ DOMAIN t2s = {}
        /\ DOMAIN t2w = {}
        /\ error = NoError

C8_Witness ==
    /\ lpc = "returned"
    /\ code_string = Some(<<>>)
    /\ lexed_code = <<>>

\* C9 as stated: when lex2csw has returned, the slices of the text named by
\* the keys of the three mappings, de-duplicated and ordered by start offset,
\* concatenate to the text.
C9_RoundTripOfKeys ==
    lpc = "returned" => ConcatSlices(code_string.v, EmittedRanges) = code_string.v

\* C9 amended: the same, for a token stream in which the style of every
\* fragment's category sets at least one of color, italic, bold.
C9_RoundTripWhenAllStyled ==
    (/\ lpc = "returned"
     /\ \A k \in 1..Len(lexed_code) : HasAttribute(styles[Category(k)])) =>
        ConcatSlices(code_string.v, EmittedRanges) = code_string.v

C9_Witness ==
    /\ lpc = "returned"
    /\ Len(lexed_code) = 3
    /\ Category(1) = "Keyword" /\ Category(2) = "Emph" /\ Category(3) = "Keyword"
    /\ Cardinality(EmittedRanges) = 3

\* C10: every read of the file is issued with the caller's file_encoding
\* (none when the caller gave none).
C10_ReadUsesCallerEncoding ==
    \A i \in 1..Len(reads) : reads[i].encoding = file_encoding

=============================================================================
